---- MODULE Spec2Model ----
(***************************************************************************)
(* A model of the inference core of ffsvm: model assembly from the parsed  *)
(* libSVM model file (CSVM::try_from), the label lookups, and the          *)
(* inference path over a reusable Problem (kernel rows, pairwise decision  *)
(* values and votes, probability coupling).                                *)
(*                                                                         *)
(* Numbers.  The program computes in f32/f64.  Here every real is a        *)
(* fixed-point integer: the real x is the integer x * Scale, products and  *)
(* quotients are rescaled (Mul, Div).  Comparisons, additions and          *)
(* subtractions are those of the code.                                     *)
(***************************************************************************)
EXTENDS Integers, Sequences, FiniteSets, TLC

VARIABLES
    pc,         \* position in the life cycle of one model and one Problem
    input,      \* the parsed model file handed to try_from
    result,     \* what try_from / the last inference returned
    svm,        \* the CSVM built by try_from (NoSVM before and on failure)
    problem,    \* the Problem buffer (NoProblem until created)
    lookup,     \* the last label/index lookup and what it returned
    inferences, \* how many inferences this Problem has been through
    cp,         \* compute_multiclass_probabilities run step by step: its loop
                \* variable, and what it has done so far
    matrix,     \* a SimdOptimized matrix that is iterated over
    iter,       \* the IterManyVectors over matrix
    seen        \* how matrix was created and written, and what iter has returned

vars == <<pc, input, result, svm, problem, lookup, inferences, cp, matrix, iter, seen>>

----------------------------------------------------------------------------
(* Fixed-point reals *)

Scale == 10000

Fx(n) == n * Scale

\* k quarters
Quarters(k) == (k * Scale) \div 4

Mul(a, b) == (a * b) \div Scale

Div(a, b) == (a * Scale) \div b

Abs(x) == IF x < 0 THEN -x ELSE x

RECURSIVE Sum(_)
Sum(seq) == IF seq = <<>> THEN 0 ELSE Head(seq) + Sum(Tail(seq))

(* Option<T>: None is the empty sequence, Some(x) the one-element sequence *)
None == <<>>

Some(x) == <<x>>

----------------------------------------------------------------------------
(* vectors::SimdOptimized: a matrix stored row after row in one array *)

with_dimension(vectors, attributes, default) ==
    [vectors       |-> vectors,
     attributes    |-> attributes,
     vector_length |-> attributes,
     data          |-> [k \in 1 .. vectors * attributes |-> default]]

offset(m, vector, attribute) == vector * m.vector_length + attribute

\* data[index] of a Vec panics unless index < len
CellInBounds(m, vector, attribute) == offset(m, vector, attribute) < Len(m.data)

index_cell(m, vector, attribute) == m.data[offset(m, vector, attribute) + 1]

index_mut_cell(m, vector, attribute, x) ==
    [m EXCEPT !.data[offset(m, vector, attribute) + 1] = x]

\* the slice data[start .. start + vector_length] panics unless it ends within data
RowInBounds(m, index) == offset(m, index, 0) + m.vector_length <= Len(m.data)

index_row(m, index) ==
    SubSeq(m.data, offset(m, index, 0) + 1, offset(m, index, 0) + m.vector_length)

index_mut_row(m, index, row) ==
    [m EXCEPT !.data = [k \in 1 .. Len(m.data) |->
        IF k > offset(m, index, 0) /\ k <= offset(m, index, 0) + m.vector_length
        THEN row[k - offset(m, index, 0)]
        ELSE m.data[k]]]

\* IntoIterator for &SimdOptimized
into_iter(m) == [index |-> 0]

\* the row read at the index already advanced
iter_row_unshifted(index) == index

\* line 157: the row behind the advanced index
iter_row(index) == index - 1

\* Iterator for IterManyVectors: the iterator after the call and the item returned;
\* aborted when the row's slice does not lie within data
next(m, it) ==
    IF it.index >= m.vectors
    THEN [iter |-> it, item |-> <<>>, aborted |-> FALSE]
    ELSE LET index == it.index + 1
         IN  IF iter_row(index) < 0 \/ ~RowInBounds(m, iter_row(index))
             THEN [iter |-> [index |-> index], item |-> <<>>, aborted |-> TRUE]
             ELSE [iter    |-> [index |-> index],
                   item    |-> <<index_row(m, iter_row(index))>>,
                   aborted |-> FALSE]

----------------------------------------------------------------------------
(* vectors::Triangular: data for the unordered pairs (i, j), i # j, of      *)
(* 0 .. dimension-1, in a flat buffer in the order (0,1), (0,2), ...,       *)
(* (1,2), ...                                                               *)

triangular_with_dimension(dimension, default) ==
    [dimension |-> dimension,
     data      |-> [k \in 1 .. (dimension * (dimension - 1)) \div 2 |-> default]]

\* the dimension n with n * (n - 1) / 2 = len, for a flat list of that length
RECURSIVE DimensionFor(_, _)
DimensionFor(len, n) ==
    IF (n * (n - 1)) \div 2 >= len THEN n ELSE DimensionFor(len, n + 1)

triangular_from(flat) ==
    [dimension |-> DimensionFor(Len(flat), 1), data |-> flat]

triangular_offset(t, i, j) ==
    LET lo == IF i < j THEN i ELSE j
        hi == IF i < j THEN j ELSE i
    IN  lo * t.dimension - (lo * (lo + 1)) \div 2 + (hi - lo - 1)

TriangularInBounds(t, i, j) ==
    i # j /\ triangular_offset(t, i, j) >= 0 /\ triangular_offset(t, i, j) < Len(t.data)

triangular_index(t, i, j) == t.data[triangular_offset(t, i, j) + 1]

triangular_index_mut(t, i, j, x) ==
    [t EXCEPT !.data[triangular_offset(t, i, j) + 1] = x]

----------------------------------------------------------------------------
(* svm::class::Class *)

class_with_parameters(classes, support_vectors, attributes, label) ==
    [label           |-> label,
     num_sv          |-> support_vectors,
     support_vectors |-> with_dimension(support_vectors, attributes, 0),
     coefficients    |-> with_dimension(classes - 1, support_vectors, 0)]

----------------------------------------------------------------------------
(* What an operation returned.  kind is "none" (nothing returned yet),      *)
(* "Ok", "Err" (error names the SVMError variant; index, last_index and     *)
(* value are the fields of AttributesUnordered) or "panic" (the operation   *)
(* aborted; error names the statement that did).                            *)

Outcome(kind, error, index, last_index, value) ==
    [kind |-> kind, error |-> error, index |-> index,
     last_index |-> last_index, value |-> value]

NoOutcome == Outcome("none", "", 0, 0, 0)

Ok == Outcome("Ok", "", 0, 0, 0)

Err(error) == Outcome("Err", error, 0, 0, 0)

Panic(at) == Outcome("panic", at, 0, 0, 0)

NoSVM ==
    [num_total_sv   |-> 0,
     num_attributes |-> 0,
     rho            |-> triangular_from(<<>>),
     probabilities  |-> None,
     kernel         |-> "",
     classes        |-> <<>>]

----------------------------------------------------------------------------
(* TryFrom<&str> for CSVM                                                   *)

\* lines 346-363: the attributes of one support vector
RECURSIVE read_features(_, _, _, _, _)
read_features(class, i_vector, features, k, last_attribute) ==
    IF k > Len(features)
    THEN [outcome |-> Ok, class |-> class]
    ELSE LET attribute   == features[k]
             i_attribute == k - 1
         IN  IF last_attribute # None /\ attribute.index # last_attribute[1] + 1
             THEN [outcome |-> Outcome("Err", "AttributesUnordered", attribute.index,
                                       last_attribute[1], attribute.value),
                   class   |-> class]
             ELSE IF ~CellInBounds(class.support_vectors, i_vector, i_attribute)
             THEN [outcome |-> Panic("support_vectors[(i_vector, i_attribute)]"),
                   class   |-> class]
             ELSE read_features(
                      [class EXCEPT !.support_vectors =
                          index_mut_cell(@, i_vector, i_attribute, attribute.value)],
                      i_vector, features, k + 1, Some(attribute.index))

\* lines 366-369: the coefficients of one support vector
RECURSIVE read_coefs(_, _, _, _)
read_coefs(class, i_vector, coefs, k) ==
    IF k > Len(coefs)
    THEN [outcome |-> Ok, class |-> class]
    ELSE LET i_coefficient == k - 1
         IN  IF ~CellInBounds(class.coefficients, i_coefficient, i_vector)
             THEN [outcome |-> Panic("coefficients[(i_coefficient, i_vector)]"),
                   class   |-> class]
             ELSE read_coefs(
                      [class EXCEPT !.coefficients =
                          index_mut_cell(@, i_coefficient, i_vector, coefs[k])],
                      i_vector, coefs, k + 1)

\* lines 342-370: the support vectors of one class, vectors[start_offset..stop_offset]
RECURSIVE read_vectors(_, _, _)
read_vectors(class, slice, k) ==
    IF k > Len(slice)
    THEN [outcome |-> Ok, class |-> class]
    ELSE LET f == read_features(class, k - 1, slice[k].features, 1, None)
         IN  IF f.outcome # Ok
             THEN f
             ELSE LET c == read_coefs(f.class, k - 1, slice[k].coefs, 1)
                  IN  IF c.outcome # Ok THEN c ELSE read_vectors(c.class, slice, k + 1)

\* lines 334-374: the classes in declaration order
RECURSIVE read_classes(_, _, _, _)
read_classes(model, inp, i, start_offset) ==
    IF i >= inp.header.nr_class
    THEN [outcome |-> Ok, svm |-> model]
    ELSE LET stop_offset == start_offset + inp.header.nr_sv[i + 1]
         IN  IF stop_offset > Len(inp.vectors)
             THEN [outcome |-> Panic("vectors[start_offset..stop_offset]"), svm |-> NoSVM]
             ELSE LET r == read_vectors(model.classes[i + 1],
                                        SubSeq(inp.vectors, start_offset + 1, stop_offset), 1)
                  IN  IF r.outcome # Ok
                      THEN [outcome |-> r.outcome, svm |-> NoSVM]
                      ELSE read_classes([model EXCEPT !.classes[i + 1] = r.class],
                                        inp, i + 1, stop_offset)

\* lines 306-313
header_probabilities(header) ==
    IF header.prob_a # None /\ header.prob_b # None
    THEN Some([a |-> triangular_from(header.prob_a[1]),
               b |-> triangular_from(header.prob_b[1])])
    ELSE None

\* lines 315-319: the kernels this match builds
kernel_supported(kernel_type) == kernel_type \in {"rbf", "linear"}

\* lines 284-378
try_from(inp) ==
    LET header == inp.header
        num_classes == header.nr_class
    IN  IF Len(inp.vectors) = 0
        THEN [outcome |-> Panic("vectors[0]"), svm |-> NoSVM]
        ELSE IF Len(header.label) < num_classes
        THEN [outcome |-> Panic("header.label[class]"), svm |-> NoSVM]
        ELSE IF Len(header.nr_sv) < num_classes
        THEN [outcome |-> Panic("header.nr_sv[class]"), svm |-> NoSVM]
        ELSE IF ~kernel_supported(header.kernel_type)
        THEN [outcome |-> Panic("unimplemented!()"), svm |-> NoSVM]
        ELSE LET num_attributes == Len(inp.vectors[1].features)
                 model ==
                     [num_total_sv   |-> header.total_sv,
                      num_attributes |-> num_attributes,
                      rho            |-> triangular_from(header.rho),
                      probabilities  |-> header_probabilities(header),
                      kernel         |-> header.kernel_type,
                      classes        |-> [c \in 1 .. num_classes |->
                          class_with_parameters(num_classes, header.nr_sv[c],
                                                num_attributes, header.label[c])]]
             IN  read_classes(model, inp, 0, 0)

\* lines 215-225
RECURSIVE class_index_scan(_, _, _)
class_index_scan(classes, label, k) ==
    IF k > Len(classes) THEN None
    ELSE IF classes[k].label # label THEN class_index_scan(classes, label, k + 1)
    ELSE Some(k - 1)

class_index_for_label(model, label) == class_index_scan(model.classes, label, 1)

\* lines 239-245
class_label_for_index(model, index) ==
    IF index >= Len(model.classes) THEN None ELSE Some(model.classes[index + 1].label)

----------------------------------------------------------------------------
(* svm::problem::Problem *)

\* q and qp are the scratch buffers compute_multiclass_probabilities borrows
problem_with_dimension(total_sv, num_classes, num_attributes) ==
    [features        |-> [k \in 1 .. num_attributes |-> 0],
     kernel_values   |-> with_dimension(num_classes, total_sv, 0),
     vote            |-> [k \in 1 .. num_classes |-> 0],
     decision_values |-> triangular_with_dimension(num_classes, 0),
     pairwise        |-> with_dimension(num_classes, num_classes, 0),
     q               |-> with_dimension(num_classes, num_classes, 0),
     qp              |-> [k \in 1 .. num_classes |-> 0],
     probabilities   |-> [k \in 1 .. num_classes |-> 0],
     label           |-> 0]

problem_from(model) ==
    problem_with_dimension(model.num_total_sv, Len(model.classes), model.num_attributes)

----------------------------------------------------------------------------
(* svm::kernel: Linear and Rbf (gamma = 1) over a class's support vectors   *)

Min(a, b) == IF a < b THEN a ELSE b

\* iter().zip(): pairs up to the shorter of the two
RECURSIVE dot(_, _, _)
dot(a, b, k) ==
    IF k > Min(Len(a), Len(b)) THEN 0 ELSE Mul(a[k], b[k]) + dot(a, b, k + 1)

RECURSIVE squared_distance(_, _, _)
squared_distance(a, b, k) ==
    IF k > Min(Len(a), Len(b)) THEN 0
    ELSE Mul(a[k] - b[k], a[k] - b[k]) + squared_distance(a, b, k + 1)

\* exp(-d) for d = 0, 1, 2, ... (rounded to the fixed-point grid)
ExpNegTable == <<10000, 3679, 1353, 498, 183, 67, 25, 9, 3, 1>>

exp_neg(d) ==
    LET k == (d + Scale \div 2) \div Scale
    IN  IF k + 1 > Len(ExpNegTable) THEN 0 ELSE ExpNegTable[k + 1]

kernel_value(kernel, sv, x) ==
    IF kernel = "linear" THEN dot(sv, x, 1) ELSE exp_neg(squared_distance(sv, x, 1))

\* Kernel::compute: output[r] = k(vectors[r], feature) for every row r
kernel_compute(kernel, vectors, feature, output) ==
    IF vectors.vectors > Len(output)
    THEN [outcome |-> Panic("output[i]"), output |-> output]
    ELSE [outcome |-> Ok,
          output  |-> [r \in 1 .. Len(output) |->
                         IF r <= vectors.vectors
                         THEN kernel_value(kernel, index_row(vectors, r - 1), feature)
                         ELSE output[r]]]

----------------------------------------------------------------------------
(* CSVM: the inference path *)

\* lines 47-59
RECURSIVE compute_kernel_values_from(_, _, _)
compute_kernel_values_from(model, prob, i) ==
    IF i >= Len(model.classes)
    THEN [outcome |-> Ok, problem |-> prob]
    ELSE IF ~RowInBounds(prob.kernel_values, i)
    THEN [outcome |-> Panic("kernel_values.row_as_flat_mut(i)"), problem |-> prob]
    ELSE LET r == kernel_compute(model.kernel, model.classes[i + 1].support_vectors,
                                 prob.features, index_row(prob.kernel_values, i))
         IN  IF r.outcome # Ok
             THEN [outcome |-> r.outcome, problem |-> prob]
             ELSE compute_kernel_values_from(
                      model,
                      [prob EXCEPT !.kernel_values = index_mut_row(@, i, r.output)],
                      i + 1)

compute_kernel_values(model, prob) == compute_kernel_values_from(model, prob, 0)

\* util::set_all
set_all(vec, x) == [k \in 1 .. Len(vec) |-> x]

\* a zero decision value voting for the lower class
index_to_vote_zero_low(sum, i, j) == IF sum >= 0 THEN i ELSE j

\* line 193
index_to_vote(sum, i, j) == IF sum > 0 THEN i ELSE j

\* class i read at the row class j is read at
coef_row_of_lower_as_higher(i, j) == i

\* line 174: the row of class i's coefficients that faces class j (i < j)
coef_row_of_lower(i, j) == j - 1

\* line 175: the row of class j's coefficients that faces class i (i < j)
coef_row_of_higher(i, j) == i

\* lines 172-198: the pairs (i, j), i < j, from (i, j) on, in loop order
RECURSIVE decide_from(_, _, _, _)
decide_from(model, prob, i, j) ==
    LET n == Len(model.classes)
    IN  IF i >= n THEN [outcome |-> Ok, problem |-> prob]
        ELSE IF j >= n THEN decide_from(model, prob, i + 1, i + 2)
        ELSE IF ~RowInBounds(model.classes[i + 1].coefficients, coef_row_of_lower(i, j))
        THEN [outcome |-> Panic("classes[i].coefficients.row(j - 1)"), problem |-> prob]
        ELSE IF ~RowInBounds(model.classes[j + 1].coefficients, coef_row_of_higher(i, j))
        THEN [outcome |-> Panic("classes[j].coefficients.row(i)"), problem |-> prob]
        ELSE IF ~TriangularInBounds(model.rho, i, j)
        THEN [outcome |-> Panic("rho[(i, j)]"), problem |-> prob]
        ELSE LET sv_coef0 == index_row(model.classes[i + 1].coefficients, coef_row_of_lower(i, j))
                 sv_coef1 == index_row(model.classes[j + 1].coefficients, coef_row_of_higher(i, j))
                 kvalues0 == index_row(prob.kernel_values, i)
                 kvalues1 == index_row(prob.kernel_values, j)
                 sum0     == dot(sv_coef0, kvalues0, 1)
                 sum1     == dot(sv_coef1, kvalues1, 1)
                 sum      == sum0 + sum1 - triangular_index(model.rho, i, j)
                 voted    == index_to_vote(sum, i, j)
             IN  decide_from(
                     model,
                     [prob EXCEPT !.decision_values = triangular_index_mut(@, i, j, sum),
                                  !.vote[voted + 1] = @ + 1],
                     i, j + 1)

\* the votes of the previous inference kept
reset_votes_skipped(vote) == vote

\* line 151
reset_votes(vote) == set_all(vote, 0)

\* lines 149-199
compute_decision_values(model, prob) ==
    decide_from(model, [prob EXCEPT !.vote = reset_votes(@)], 0, 1)

----------------------------------------------------------------------------
(* Predict: the sigmoid calibration of the pairwise decisions and the       *)
(* choice of the label                                                      *)

\* 1 / (1 + exp(k)) for k = -3 .. 3 (rounded to the fixed-point grid)
SigmoidTable == <<9526, 8808, 7311, 5000, 2689, 1192, 474>>

MinProb == 1

sigmoid_predict(decision_value, a, b) ==
    LET x == Mul(a, decision_value) + b
        k == (x + Scale \div 2) \div Scale
    IN  IF k < -3 THEN SigmoidTable[1]
        ELSE IF k > 3 THEN SigmoidTable[7]
        ELSE SigmoidTable[k + 4]

clamp_probability(p) ==
    IF p < MinProb THEN MinProb ELSE IF p > Fx(1) - MinProb THEN Fx(1) - MinProb ELSE p

RECURSIVE compute_pairwise_from(_, _, _, _)
compute_pairwise_from(model, prob, i, j) ==
    LET n == Len(model.classes)
        ab == model.probabilities[1]
    IN  IF i >= n THEN [outcome |-> Ok, problem |-> prob]
        ELSE IF j >= n THEN compute_pairwise_from(model, prob, i + 1, i + 2)
        ELSE IF ~TriangularInBounds(ab.a, i, j)
        THEN [outcome |-> Panic("probabilities.a[(i, j)]"), problem |-> prob]
        ELSE IF ~TriangularInBounds(ab.b, i, j)
        THEN [outcome |-> Panic("probabilities.b[(i, j)]"), problem |-> prob]
        ELSE LET sigmoid == clamp_probability(
                                sigmoid_predict(triangular_index(prob.decision_values, i, j),
                                                triangular_index(ab.a, i, j),
                                                triangular_index(ab.b, i, j)))
             IN  compute_pairwise_from(
                     model,
                     [prob EXCEPT !.pairwise =
                         index_mut_cell(index_mut_cell(@, i, j, sigmoid), j, i, Fx(1) - sigmoid)],
                     i, j + 1)

compute_pairwise(model, prob) == compute_pairwise_from(model, prob, 0, 1)

\* the index of the first largest element
RECURSIVE argmax_from(_, _, _)
argmax_from(seq, k, best) ==
    IF k > Len(seq) THEN best - 1
    ELSE IF seq[k] > seq[best] THEN argmax_from(seq, k + 1, k)
    ELSE argmax_from(seq, k + 1, best)

argmax(seq) == argmax_from(seq, 2, 1)

select_label(model, prob) ==
    LET scores == IF model.probabilities = None THEN prob.vote ELSE prob.probabilities
    IN  [prob EXCEPT !.label = model.classes[argmax(scores) + 1].label]

----------------------------------------------------------------------------
(* CSVM::compute_multiclass_probabilities                                   *)

MaxIterFloor == 100

\* one more round than the loop has
max_iter_one_more(num_classes) ==
    (IF MaxIterFloor > num_classes THEN MaxIterFloor ELSE num_classes) + 1

\* line 71
max_iter(num_classes) == IF MaxIterFloor > num_classes THEN MaxIterFloor ELSE num_classes

\* line 74
eps(num_classes) == Div((5 * Scale) \div 1000, Fx(num_classes))

\* lines 84-92: the cells (t, j), j # t, of row t of Q
RECURSIVE build_q_row(_, _, _, _)
build_q_row(prob, num_classes, t, j) ==
    IF j >= num_classes THEN prob
    ELSE IF j = t THEN build_q_row(prob, num_classes, t, j + 1)
    ELSE LET pjt == index_cell(prob.pairwise, j, t)
             ptj == index_cell(prob.pairwise, t, j)
             qtt == index_cell(prob.q, t, t) + Mul(pjt, pjt)
             qtj == IF j < t THEN index_cell(prob.q, j, t) ELSE -Mul(pjt, ptj)
         IN  build_q_row(
                 [prob EXCEPT !.q = index_mut_cell(index_mut_cell(@, t, t, qtt), t, j, qtj)],
                 num_classes, t, j + 1)

\* line 80
initial_probability(old, num_classes) == Div(Fx(1), Fx(num_classes))

\* lines 79-93
RECURSIVE build_q(_, _, _)
build_q(prob, num_classes, t) ==
    IF t >= num_classes THEN prob
    ELSE build_q(
             build_q_row(
                 [prob EXCEPT !.probabilities[t + 1] = initial_probability(@, num_classes),
                              !.q = index_mut_cell(@, t, t, 0)],
                 num_classes, t, 0),
             num_classes, t + 1)

\* lines 99-107
compute_qp(prob, num_classes) ==
    [t \in 1 .. num_classes |->
        Sum([j \in 1 .. num_classes |->
                Mul(index_cell(prob.q, t - 1, j - 1), prob.probabilities[j])])]

compute_pqp(probabilities, qp) ==
    Sum([t \in 1 .. Len(qp) |-> Mul(probabilities[t], qp[t])])

\* lines 111-119
RECURSIVE max_error_from(_, _, _, _)
max_error_from(qp, pqp, k, max_error) ==
    IF k > Len(qp) THEN max_error
    ELSE LET error == Abs(qp[k] - pqp)
         IN  max_error_from(qp, pqp, k + 1, IF error > max_error THEN error ELSE max_error)

\* lines 132-142
RECURSIVE update_probabilities(_, _, _, _)
update_probabilities(prob, pqp, num_classes, t) ==
    IF t >= num_classes THEN prob
    ELSE LET qtt  == index_cell(prob.q, t, t)
             diff == Div(-prob.qp[t + 1] + pqp, qtt)
             p1   == [prob.probabilities EXCEPT ![t + 1] = @ + diff]
             pqp1 == Div(Div(pqp + Mul(diff, Mul(diff, qtt) + 2 * prob.qp[t + 1]),
                             Fx(1) + diff),
                         Fx(1) + diff)
         IN  update_probabilities(
                 [prob EXCEPT
                    !.qp = [j \in 1 .. num_classes |->
                              Div(prob.qp[j] + Mul(diff, index_cell(prob.q, t, j - 1)),
                                  Fx(1) + diff)],
                    !.probabilities = [j \in 1 .. num_classes |-> Div(p1[j], Fx(1) + diff)]],
                 pqp1, num_classes, t + 1)

\* line 121
converged(max_error, num_classes) == max_error < eps(num_classes)

\* the error raised one round early
is_last_iteration_early(i, num_classes) == i = max_iter(num_classes) - 1

\* line 127
is_last_iteration(i, num_classes) == i = max_iter(num_classes)

\* lines 97-142: the body of the loop at iteration i.  status is "break"
\* (the test passed), "Err" (IterationsExceeded) or "continue" (updated)
coupling_iteration(prob, num_classes, i) ==
    LET qp        == compute_qp(prob, num_classes)
        pqp       == compute_pqp(prob.probabilities, qp)
        max_error == max_error_from(qp, pqp, 1, 0)
        tested    == [prob EXCEPT !.qp = qp]
    IN  IF converged(max_error, num_classes)
        THEN [status |-> "break", problem |-> tested]
        ELSE IF is_last_iteration(i, num_classes)
        THEN [status |-> "Err", problem |-> tested]
        ELSE [status |-> "continue",
              problem |-> update_probabilities(tested, pqp, num_classes, 0)]

\* line 96: for i in 0..=max_iter
RECURSIVE coupling_loop(_, _, _)
coupling_loop(prob, num_classes, i) ==
    IF i > max_iter(num_classes)
    THEN [outcome |-> Ok, problem |-> prob]
    ELSE LET r == coupling_iteration(prob, num_classes, i)
         IN  IF r.status = "break" THEN [outcome |-> Ok, problem |-> r.problem]
             ELSE IF r.status = "Err"
             THEN [outcome |-> Err("IterationsExceeded"), problem |-> r.problem]
             ELSE coupling_loop(r.problem, num_classes, i + 1)

\* lines 66-146
compute_multiclass_probabilities(model, prob) ==
    coupling_loop(build_q(prob, Len(model.classes), 0), Len(model.classes), 0)

----------------------------------------------------------------------------
(* The parsed model files handed to try_from (parser::ModelFile).  The      *)
(* parser is a collaborator: it hands over what the file says.  The inputs  *)
(* are well-formed files over a pool of support vectors, and well-formed    *)
(* files with one part of the file replaced.                                *)

MaxVectors == 3

MaxIndex == 3

MaxTotalSv == 4

ClassCounts == {2, 3}

Labels == {3, 5, 7}

DeclaredLabels == <<7, 3, 5>>

KernelNames == {"linear", "polynomial", "rbf", "sigmoid", "precomputed"}

Attribute(index, value) == [index |-> index, value |-> value]

SupportVector(coefs, features) == [coefs |-> coefs, features |-> features]

\* a dense attribute stream: indices 1, 2, ... in order
Dense(values) == [k \in 1 .. Len(values) |-> Attribute(k, values[k])]

Prefix(seq, n) == SubSeq(seq, 1, n)

\* the well-formed support vectors of a model with n classes
PoolSeq(n) ==
    << SupportVector(Prefix(<<Fx(1), Fx(-1)>>, n - 1), Dense(<<Fx(1), 0>>)),
       SupportVector(Prefix(<<Fx(-1), Fx(1)>>, n - 1), Dense(<<0, Fx(1)>>)),
       SupportVector(Prefix(<<Fx(1), Fx(1)>>, n - 1), Dense(<<Fx(1), Fx(1)>>)) >>

SvPool(n) == { PoolSeq(n)[k] : k \in 1 .. Len(PoolSeq(n)) }

RhoPool == { <<0, 0, 0>>, <<Fx(1), 0, Fx(-1)>> }

ProbPool == { None, Some(<<Quarters(-1), Quarters(-1), Quarters(1)>>) }

Pairs(n) == (n * (n - 1)) \div 2

OptPrefix(opt, n) == IF opt = None THEN None ELSE Some(Prefix(opt[1], n))

ModelFile(kernel_type, n, total_sv, nr_sv, label, rho, prob_a, prob_b, vectors) ==
    [header  |-> [kernel_type |-> kernel_type, nr_class |-> n, total_sv |-> total_sv,
                  nr_sv |-> nr_sv, label |-> label, rho |-> rho,
                  prob_a |-> prob_a, prob_b |-> prob_b],
     vectors |-> vectors]

\* the class whose block of the vector list holds entry k
ClassOf(nr_sv, k) ==
    CHOOSE c \in 1 .. Len(nr_sv) : Sum(Prefix(nr_sv, c - 1)) < k /\ k <= Sum(Prefix(nr_sv, c))

\* per-class counts and as many support vectors as they announce, no class holding
\* the same support vector twice
ShapedVectors(n) ==
    UNION { { <<nr_sv, vectors>> :
                vectors \in { v \in [1 .. Sum(nr_sv) -> SvPool(n)] :
                                \A a, b \in 1 .. Sum(nr_sv) :
                                    (a < b /\ ClassOf(nr_sv, a) = ClassOf(nr_sv, b))
                                        => v[a] # v[b] } } :
            nr_sv \in { s \in [1 .. n -> 1 .. 2] : Sum(s) <= MaxVectors } }

\* rho with and without calibration parameters: uncalibrated with every rho,
\* calibrated with the non-zero one
RhoProbPool ==
    { <<rho, None>> : rho \in RhoPool }
        \cup { <<<<Fx(1), 0, Fx(-1)>>, prob>> : prob \in ProbPool \ {None} }

WellFormedFor(n) ==
    { ModelFile(k, n, Sum(sv[1]), sv[1], Prefix(DeclaredLabels, n), Prefix(rp[1], Pairs(n)),
                OptPrefix(rp[2], Pairs(n)),
                IF rp[2] = None THEN None ELSE Some([p \in 1 .. Pairs(n) |-> 0]),
                sv[2]) :
        k \in {"linear", "rbf"}, rp \in RhoProbPool, sv \in ShapedVectors(n) }

WellFormedInputs == UNION { WellFormedFor(n) : n \in ClassCounts }

\* one well-formed file per class count, and the files that differ from it in one part
Base(n) ==
    ModelFile("linear", n, n, [c \in 1 .. n |-> 1], Prefix(DeclaredLabels, n),
              Prefix(<<Fx(1), 0, Fx(-1)>>, Pairs(n)), None, None, Prefix(PoolSeq(n), n))

SeqsUpTo(S, len) == UNION { [1 .. m -> S] : m \in 0 .. len }

\* attribute streams with any indices: gaps, repeats, reorderings, any start, any length
AttributeStreams ==
    { [k \in 1 .. Len(ix) |-> Attribute(ix[k], Fx(1))] : ix \in SeqsUpTo(1 .. MaxIndex, MaxIndex) }

OneChange(b) ==
    LET n == b.header.nr_class
    IN  { [b EXCEPT !.header.kernel_type = k] : k \in KernelNames }
        \cup { [b EXCEPT !.header.total_sv = t] : t \in 0 .. MaxTotalSv }
        \cup { [b EXCEPT !.header.label = l] : l \in [1 .. n -> Labels] \cup [1 .. n - 1 -> Labels] }
        \cup { [b EXCEPT !.header.nr_sv = s] : s \in [1 .. n -> 0 .. 2] \cup [1 .. n - 1 -> 0 .. 2] }
        \cup { [b EXCEPT !.header.rho = r] : r \in SeqsUpTo({Fx(1)}, Pairs(n) + 1) }
        \cup { [b EXCEPT !.header.prob_a = Some(a), !.header.prob_b = pb] :
                 a \in SeqsUpTo({Quarters(-1)}, Pairs(n)),
                 pb \in {None, Some([p \in 1 .. Pairs(n) |-> 0])} }
        \cup { [b EXCEPT !.vectors = v] : v \in SeqsUpTo(SvPool(n), n + 1) }
        \cup { [b EXCEPT !.vectors[v].features = fs] :
                 v \in 1 .. Len(b.vectors), fs \in AttributeStreams }
        \cup { [b EXCEPT !.vectors[v].coefs = cs] :
                 v \in 1 .. Len(b.vectors), cs \in SeqsUpTo({Fx(1)}, n) }

ChangedInputs == UNION { OneChange(Base(n)) : n \in ClassCounts }

Inputs == WellFormedInputs \cup ChangedInputs

----------------------------------------------------------------------------
(* Life cycle *)

NoProblem ==
    [features        |-> <<>>,
     kernel_values   |-> with_dimension(0, 0, 0),
     vote            |-> <<>>,
     decision_values |-> triangular_from(<<>>),
     pairwise        |-> with_dimension(0, 0, 0),
     q               |-> with_dimension(0, 0, 0),
     qp              |-> <<>>,
     probabilities   |-> <<>>,
     label           |-> 0]

NoLookup == [op |-> "", arg |-> 0, ret |-> None]

\* i: the loop variable; tests, updates: convergence tests and updates done;
\* tested, tested_i: the probabilities the last test saw, and its iteration
NoCoupling == [i |-> 0, tests |-> 0, updates |-> 0, tested |-> <<>>, tested_i |-> 0]

MaxInferences == 2

\* vectors, attributes, default: the arguments of with_dimension; cells: the value
\* of every (vector, attribute), as created and as written since; writes: the
\* writes done; yielded: the rows next() has returned; nones: the times it
\* has returned None
Seen(vectors, attributes, default) ==
    [vectors    |-> vectors,
     attributes |-> attributes,
     default    |-> default,
     cells      |-> [c \in (0 .. vectors - 1) \X (0 .. attributes - 1) |-> default],
     writes     |-> 0,
     yielded    |-> <<>>,
     nones      |-> 0]

NoSeen == Seen(0, 0, 0)

NoInput == ModelFile("", 0, 0, <<>>, <<>>, <<>>, None, None, <<>>)

Init ==
    /\ pc = "start"
    /\ input = NoInput
    /\ result = NoOutcome
    /\ svm = NoSVM
    /\ problem = NoProblem
    /\ lookup = NoLookup
    /\ inferences = 0
    /\ cp = NoCoupling
    /\ matrix = with_dimension(0, 0, 0)
    /\ iter = into_iter(matrix)
    /\ seen = NoSeen

TryFrom ==
    /\ pc = "start"
    /\ \E inp \in Inputs :
         LET r == try_from(inp)
         IN  /\ input' = inp
             /\ result' = r.outcome
             /\ svm' = r.svm
             /\ pc' = IF r.outcome = Ok THEN "built" ELSE "failed"
    /\ UNCHANGED <<matrix, iter, seen, problem, lookup, inferences, cp>>

ClassIndexForLabel ==
    /\ pc = "built"
    /\ \E label \in Labels :
         lookup' = [op |-> "class_index_for_label", arg |-> label,
                    ret |-> class_index_for_label(svm, label)]
    /\ UNCHANGED <<matrix, iter, seen, pc, input, result, svm, problem, inferences, cp>>

ClassLabelForIndex ==
    /\ pc = "built"
    /\ \E index \in 0 .. Len(svm.classes) :
         lookup' = [op |-> "class_label_for_index", arg |-> index,
                    ret |-> class_label_for_index(svm, index)]
    /\ UNCHANGED <<matrix, iter, seen, pc, input, result, svm, problem, inferences, cp>>

\* Problem::from(&svm)
ProblemFrom ==
    /\ pc = "built"
    /\ problem' = problem_from(svm)
    /\ lookup' = NoLookup
    /\ pc' = "idle"
    /\ UNCHANGED <<matrix, iter, seen, input, result, svm, inferences, cp>>

\* the caller overwrites the features before an inference
SetFeatures ==
    /\ pc = "idle"
    /\ inferences < MaxInferences
    /\ \E f \in [1 .. Len(problem.features) -> {0, Fx(1)}] :
         problem' = [problem EXCEPT !.features = f]
    /\ result' = NoOutcome
    /\ pc' = "features"
    /\ UNCHANGED <<matrix, iter, seen, input, svm, lookup, inferences, cp>>

ComputeKernelValues ==
    /\ pc = "features"
    /\ LET r == compute_kernel_values(svm, problem)
       IN  /\ problem' = r.problem
           /\ result' = IF r.outcome = Ok THEN result ELSE r.outcome
           /\ pc' = IF r.outcome = Ok THEN "kernel" ELSE "aborted"
    /\ UNCHANGED <<matrix, iter, seen, input, svm, lookup, inferences, cp>>

ComputeDecisionValues ==
    /\ pc = "kernel"
    /\ LET r == compute_decision_values(svm, problem)
       IN  /\ problem' = r.problem
           /\ result' = IF r.outcome = Ok THEN result ELSE r.outcome
           /\ pc' = IF r.outcome = Ok THEN "decision" ELSE "aborted"
    /\ UNCHANGED <<matrix, iter, seen, input, svm, lookup, inferences, cp>>

\* Predict, with probabilities: sigmoid-calibrate every pairwise decision
ComputePairwise ==
    /\ pc = "decision"
    /\ svm.probabilities # None
    /\ LET r == compute_pairwise(svm, problem)
       IN  /\ problem' = r.problem
           /\ result' = IF r.outcome = Ok THEN result ELSE r.outcome
           /\ pc' = IF r.outcome = Ok THEN "pairwise" ELSE "aborted"
    /\ UNCHANGED <<matrix, iter, seen, input, svm, lookup, inferences, cp>>

ComputeMulticlassProbabilities ==
    /\ pc = "pairwise"
    /\ LET r == compute_multiclass_probabilities(svm, problem)
       IN  /\ problem' = r.problem
           /\ result' = IF r.outcome = Ok THEN result ELSE r.outcome
           /\ pc' = IF r.outcome = Ok THEN "coupled" ELSE "idle"
           /\ inferences' = IF r.outcome = Ok THEN inferences ELSE inferences + 1
    /\ UNCHANGED <<matrix, iter, seen, input, svm, lookup, cp>>

\* Predict: the label of the class with the most votes / the largest probability
SelectLabel ==
    /\ \/ pc = "decision" /\ svm.probabilities = None
       \/ pc = "coupled"
    /\ problem' = select_label(svm, problem)
    /\ result' = Ok
    /\ pc' = "idle"
    /\ inferences' = inferences + 1
    /\ UNCHANGED <<matrix, iter, seen, input, svm, lookup, cp>>

Next ==
    \/ TryFrom
    \/ ClassIndexForLabel
    \/ ClassLabelForIndex
    \/ ProblemFrom
    \/ SetFeatures
    \/ ComputeKernelValues
    \/ ComputeDecisionValues
    \/ ComputePairwise
    \/ ComputeMulticlassProbabilities
    \/ SelectLabel

Spec == Init /\ [][Next]_vars

----------------------------------------------------------------------------
(* compute_multiclass_probabilities on its own, one loop iteration per      *)
(* step, on Problems whose pairwise matrix is given: the matrices the       *)
(* sigmoid calibration can leave (complementary entries in (0, 1)) and      *)
(* matrices written into the Problem's public pairwise field directly.      *)

CalibratedModel(n) ==
    [Base(n) EXCEPT !.header.prob_a = Some([p \in 1 .. Pairs(n) |-> Quarters(-1)]),
                    !.header.prob_b = Some([p \in 1 .. Pairs(n) |-> 0])]

\* row-major n x n with a zero diagonal, from the entries above the diagonal
Complementary(n, upper) ==
    [k \in 1 .. n * n |->
        LET i == (k - 1) \div n
            j == (k - 1) % n
        IN  IF i = j THEN 0
            ELSE IF i < j THEN upper[i * n - (i * (i + 1)) \div 2 + (j - i)]
            ELSE Fx(1) - upper[j * n - (j * (j + 1)) \div 2 + (i - j)]]

CalibratedPairwise(n) ==
    { Complementary(n, upper) :
        upper \in [1 .. Pairs(n) -> {Quarters(1), Quarters(2), Quarters(3)}] }

\* (0,1), (0,2), (1,0), (1,2), (2,0), (2,1) in quarters
Direct3(a, b, c, d, e, f) ==
    <<0, Quarters(a), Quarters(b), Quarters(c), 0, Quarters(d), Quarters(e), Quarters(f), 0>>

DirectPairwise(n) ==
    IF n = 2
    THEN { <<0, Quarters(-4), Quarters(3), 0>>, <<0, 0, 0, 0>> }
    ELSE { Direct3(3, 2, 2, 2, -4, -4), Direct3(0, 8, 2, 8, 8, -4),
           Direct3(8, 1, -4, 1, 0, 1), Direct3(0, 0, 0, 0, 0, 0) }

InitCoupling ==
    /\ pc = "coupling"
    /\ \E n \in ClassCounts :
         /\ input = CalibratedModel(n)
         /\ svm = try_from(input).svm
         /\ \E m \in CalibratedPairwise(n) \cup DirectPairwise(n) :
              problem = [problem_from(svm) EXCEPT !.pairwise.data = m]
    /\ result = NoOutcome
    /\ lookup = NoLookup
    /\ inferences = 0
    /\ cp = NoCoupling
    /\ matrix = with_dimension(0, 0, 0)
    /\ iter = into_iter(matrix)
    /\ seen = NoSeen

\* lines 70-93
CouplingBegin ==
    /\ pc = "coupling"
    /\ problem' = build_q(problem, Len(svm.classes), 0)
    /\ cp' = NoCoupling
    /\ pc' = "loop"
    /\ UNCHANGED <<matrix, iter, seen, input, result, svm, lookup, inferences>>

\* lines 96-145: one iteration of the loop, or its end
CouplingIteration ==
    /\ pc = "loop"
    /\ IF cp.i > max_iter(Len(svm.classes))
       THEN /\ result' = Ok
            /\ pc' = "returned"
            /\ UNCHANGED <<matrix, iter, seen, problem, cp>>
       ELSE LET r == coupling_iteration(problem, Len(svm.classes), cp.i)
            IN  /\ problem' = r.problem
                /\ cp' = [i        |-> IF r.status = "continue" THEN cp.i + 1 ELSE cp.i,
                          tests    |-> cp.tests + 1,
                          updates  |-> IF r.status = "continue" THEN cp.updates + 1
                                       ELSE cp.updates,
                          tested   |-> problem.probabilities,
                          tested_i |-> cp.i]
                /\ result' = IF r.status = "break" THEN Ok
                             ELSE IF r.status = "Err" THEN Err("IterationsExceeded")
                             ELSE result
                /\ pc' = IF r.status = "continue" THEN "loop" ELSE "returned"
    /\ UNCHANGED <<matrix, iter, seen, input, svm, lookup, inferences>>

NextCoupling == CouplingBegin \/ CouplingIteration

SpecCoupling == InitCoupling /\ [][NextCoupling]_vars

----------------------------------------------------------------------------
(* Iteration over a SimdOptimized matrix: created by with_dimension, written *)
(* through IndexMut<(usize, usize)> before the iterator borrows it, then     *)
(* read row by row with next().                                              *)

MaxRows == 3

MaxAttributes == 2

MaxWrites == 1

MaxNones == 2

Defaults == {0, 5}

InitIter ==
    /\ pc = "matrix"
    /\ input = NoInput
    /\ result = NoOutcome
    /\ svm = NoSVM
    /\ problem = NoProblem
    /\ lookup = NoLookup
    /\ inferences = 0
    /\ cp = NoCoupling
    /\ \E vectors \in 0 .. MaxRows, attributes \in 0 .. MaxAttributes, default \in Defaults :
         /\ matrix = with_dimension(vectors, attributes, default)
         /\ seen = Seen(vectors, attributes, default)
    /\ iter = into_iter(matrix)

\* matrix[(vector, attribute)] = x
IndexMut ==
    /\ pc = "matrix"
    /\ seen.writes < MaxWrites
    /\ \E vector \in 0 .. seen.vectors - 1, attribute \in 0 .. seen.attributes - 1 :
         /\ CellInBounds(matrix, vector, attribute)
         /\ matrix' = index_mut_cell(matrix, vector, attribute, seen.default + 1)
         /\ seen' = [seen EXCEPT !.cells[<<vector, attribute>>] = seen.default + 1,
                                 !.writes = @ + 1]
    /\ UNCHANGED <<pc, input, result, svm, problem, lookup, inferences, cp, iter>>

\* for x in &matrix
IntoIter ==
    /\ pc = "matrix"
    /\ iter' = into_iter(matrix)
    /\ pc' = "iterating"
    /\ UNCHANGED <<input, result, svm, problem, lookup, inferences, cp, matrix, seen>>

IterNext ==
    /\ pc = "iterating"
    /\ seen.nones < MaxNones
    /\ LET r == next(matrix, iter)
       IN  /\ iter' = r.iter
           /\ pc' = IF r.aborted THEN "aborted" ELSE "iterating"
           /\ result' = IF r.aborted THEN Panic("matrix[index - 1]") ELSE result
           /\ seen' = IF r.aborted THEN seen
                      ELSE IF r.item = <<>> THEN [seen EXCEPT !.nones = @ + 1]
                      ELSE [seen EXCEPT !.yielded = Append(@, r.item[1])]
    /\ UNCHANGED <<input, svm, problem, lookup, inferences, cp, matrix>>

NextIter == IndexMut \/ IntoIter \/ IterNext

SpecIter == InitIter /\ [][NextIter]_vars

----------------------------------------------------------------------------
(* Claims *)

ClassPairs ==
    { pair \in (0 .. Len(svm.classes) - 1) \X (0 .. Len(svm.classes) - 1) : pair[1] < pair[2] }

\* row r of class c's coefficient matrix, read off its backing array
CoefficientRow(c, r) ==
    LET class == svm.classes[c + 1]
    IN  [k \in 1 .. class.num_sv |-> class.coefficients.data[r * class.num_sv + k]]

\* row c of the Problem's kernel values, read off its backing array
KernelRow(c) ==
    [k \in 1 .. svm.num_total_sv |-> problem.kernel_values.data[c * svm.num_total_sv + k]]

PrefixDot(a, b) == Sum([k \in 1 .. Min(Len(a), Len(b)) |-> Mul(a[k], b[k])])

ExpectedDecision(i, j) ==
    PrefixDot(CoefficientRow(i, j - 1), KernelRow(i))
    + PrefixDot(CoefficientRow(j, i), KernelRow(j))
    - triangular_index(svm.rho, i, j)

ExpectedVotes(c) ==
    Cardinality({ pair \in ClassPairs :
                    \/ ExpectedDecision(pair[1], pair[2]) > 0 /\ pair[1] = c
                    \/ ExpectedDecision(pair[1], pair[2]) <= 0 /\ pair[2] = c })

\* C1: right after compute_decision_values, for every pair i < j the stored decision
\* value is (class i's coefficient row j-1 . kernel row i) + (class j's coefficient
\* row i . kernel row j) - rho[(i,j)], and every pair has cast exactly one vote: for i
\* when the value is > 0, otherwise for j.
C1_DecisionValuesAndVotes ==
    pc = "decision" =>
        /\ \A pair \in ClassPairs :
             triangular_index(problem.decision_values, pair[1], pair[2])
                 = ExpectedDecision(pair[1], pair[2])
        /\ \A c \in 0 .. Len(svm.classes) - 1 : problem.vote[c + 1] = ExpectedVotes(c)

C1_Witness ==
    /\ pc = "decision"
    /\ Len(svm.classes) = 3
    /\ \E pair \in ClassPairs : ExpectedDecision(pair[1], pair[2]) > 0
    /\ \E pair \in ClassPairs : ExpectedDecision(pair[1], pair[2]) < 0
    /\ \E c \in 1 .. 3 : problem.vote[c] = 2
    /\ \A c \in 1 .. 3 : svm.classes[c].num_sv >= 1
    /\ \E k \in 1 .. Len(problem.kernel_values.data) : problem.kernel_values.data[k] # 0

\* an inference on a two-class model without probabilities has returned, and its
\* one decision value is exactly 0
C2_Case ==
    /\ pc = "idle"
    /\ inferences >= 1
    /\ result = Ok
    /\ Len(svm.classes) = 2
    /\ svm.probabilities = None
    /\ triangular_index(problem.decision_values, 0, 1) = 0

\* C2 as stated: with two classes, no probabilities and d_01 = 0, the result is the
\* label of class index 0.
C2_ZeroDecisionPicksClass0 == C2_Case => problem.label = svm.classes[1].label

\* C2 as amended: with two classes, no probabilities and d_01 = 0, the pair votes for
\* class 1 (the value is not > 0), so the votes are (0, 1) and the result is the label
\* of class index 1.
C2_ZeroDecisionPicksClass1 ==
    C2_Case => problem.vote = <<0, 1>> /\ problem.label = svm.classes[2].label

C2_Witness == C2_Case /\ svm.classes[1].label # svm.classes[2].label

\* the same inference on a Problem just created from the model
FreshInference ==
    LET p0 == [problem_from(svm) EXCEPT !.features = problem.features]
        p1 == compute_kernel_values(svm, p0).problem
        p2 == compute_decision_values(svm, p1).problem
    IN  IF svm.probabilities = None
        THEN select_label(svm, p2)
        ELSE select_label(svm,
                 compute_multiclass_probabilities(svm, compute_pairwise(svm, p2).problem).problem)

\* C3: when an inference on a Problem returns, however many inferences the Problem has
\* been through, its votes, decision values, probabilities and label are those the
\* same features give on a Problem just created.
C3_ReusedProblemAsFresh ==
    (pc = "idle" /\ inferences >= 1 /\ result = Ok) =>
        /\ problem.vote = FreshInference.vote
        /\ problem.decision_values = FreshInference.decision_values
        /\ problem.probabilities = FreshInference.probabilities
        /\ problem.label = FreshInference.label

C3_Witness ==
    /\ pc = "idle"
    /\ result = Ok
    /\ inferences >= 2
    /\ Len(svm.classes) = 3
    /\ svm.probabilities # None

DeclaredLabel(label) == \E c \in 1 .. Len(svm.classes) : svm.classes[c].label = label

\* C4 as stated: on an accepted model, the index of the label of a valid index i is
\* Some(i), and the label of the index of a declared label l is Some(l).
C4_LookupRoundTrip ==
    /\ (lookup.op = "class_label_for_index" /\ lookup.arg < Len(svm.classes)) =>
           /\ lookup.ret # None
           /\ class_index_for_label(svm, lookup.ret[1]) = Some(lookup.arg)
    /\ (lookup.op = "class_index_for_label" /\ DeclaredLabel(lookup.arg)) =>
           /\ lookup.ret # None
           /\ class_label_for_index(svm, lookup.ret[1]) = Some(lookup.arg)


\* the convergence test on the probabilities p: max_t |Qp[t] - pQp| < eps
TestMet(p) ==
    LET n   == Len(svm.classes)
        Qp  == [t \in 1 .. n |->
                  Sum([j \in 1 .. n |-> Mul(problem.q.data[(t - 1) * n + j], p[j])])]
        pQp == Sum([t \in 1 .. n |-> Mul(p[t], Qp[t])])
    IN  \A t \in 1 .. n : Abs(Qp[t] - pQp) < eps(n)

\* the loop variable of the final iteration: max(100, num_classes)
FinalIteration == IF 100 > Len(svm.classes) THEN 100 ELSE Len(svm.classes)

\* C5: compute_multiclass_probabilities returns Err(IterationsExceeded) exactly when
\* the convergence test fails on the final iteration; otherwise it returns Ok, and it
\* does so right after the first test that passes, with the probabilities that test
\* saw: no test that passed is followed by another iteration.
C5_ErrExactlyOnFailedFinalTest ==
    /\ pc = "returned" =>
         /\ result = Err("IterationsExceeded")
              <=> (cp.tested_i = FinalIteration /\ ~TestMet(cp.tested))
         /\ result # Err("IterationsExceeded") =>
              /\ result = Ok
              /\ TestMet(cp.tested)
              /\ problem.probabilities = cp.tested
    /\ (pc = "loop" /\ cp.tests > 0) => ~TestMet(cp.tested)

C5_Witness ==
    /\ pc = "returned"
    /\ result = Err("IterationsExceeded")
    /\ cp.tested_i = FinalIteration

\* C6 as stated: the loop body (Qp, pQp and the convergence test) runs at most
\* max_iter = max(100, num_classes) times.
C6_AtMostMaxIterTests == cp.tests <= FinalIteration

\* C6 as amended: the loop body runs at most max_iter + 1 times (the loop is
\* 0..=max_iter) and the probabilities are updated at most max_iter times, whether the
\* function ends by convergence or by IterationsExceeded.
C6_AtMostMaxIterPlusOneTests ==
    /\ cp.tests <= FinalIteration + 1
    /\ cp.updates <= FinalIteration
    /\ pc = "loop" => cp.i <= FinalIteration

C6_Witness ==
    /\ pc = "returned"
    /\ cp.tests = FinalIteration + 1
    /\ cp.updates = FinalIteration

\* the support vectors try_from reads: the first nr_sv[0] + ... + nr_sv[n-1]
VectorsRead ==
    1 .. Sum([c \in 1 .. input.header.nr_class |-> input.header.nr_sv[c]])

DenseFromOne(features) == \A k \in 1 .. Len(features) : features[k].index = k

\* C7 as stated: try_from accepts a support vector only if its attribute indices are
\* 1, 2, 3, ...: every support vector of an accepted model is such.
C7_AcceptedVectorsDenseFromOne ==
    pc = "built" => \A v \in VectorsRead : DenseFromOne(input.vectors[v].features)

\* try_from has returned on a file whose header lets it reach the support vectors
ReachedVectors ==
    /\ pc \in {"built", "failed"}
    /\ Len(input.vectors) > 0
    /\ Len(input.header.label) >= input.header.nr_class
    /\ Len(input.header.nr_sv) >= input.header.nr_class

\* C8 as stated: when a later support vector has another number of attributes than
\* the first, try_from returns the error ModelInconsistent.
C8_OtherLengthIsModelInconsistent ==
    ( /\ ReachedVectors
      /\ kernel_supported(input.header.kernel_type)
      /\ VectorsRead \subseteq 1 .. Len(input.vectors)
      /\ \A v \in VectorsRead : DenseFromOne(input.vectors[v].features)
      /\ \E v \in VectorsRead :
           Len(input.vectors[v].features) # Len(input.vectors[1].features) )
    => result = Err("ModelInconsistent")

\* C9 as stated: try_from builds a kernel for linear, polynomial, rbf and sigmoid, and
\* returns the error UnsupportedKernel for every other kernel_type; it never aborts.
C9_KernelBuiltOrUnsupported ==
    ReachedVectors =>
        IF input.header.kernel_type \in {"linear", "polynomial", "rbf", "sigmoid"}
        THEN result # Panic("unimplemented!()")
        ELSE result = Err("UnsupportedKernel")

\* C10 as stated: in every accepted model the classes' num_sv sum to num_total_sv.
C10_NumSvSumIsTotal ==
    pc = "built" =>
        Sum([c \in 1 .. Len(svm.classes) |-> svm.classes[c].num_sv]) = svm.num_total_sv

\* a Problem created from the accepted model is in use on the inference path
OnInferencePath ==
    pc \in {"idle", "features", "kernel", "decision", "pairwise", "coupled", "aborted"}

\* C11 as stated: on an accepted model and a Problem created from it the inference
\* path never aborts on a row or cell out of bounds, and the only error it returns is
\* IterationsExceeded.
C11_InferencePathTotal ==
    OnInferencePath =>
        /\ result.kind # "panic"
        /\ result.kind = "Err" => result = Err("IterationsExceeded")

\* C13: right after a completed compute_decision_values on a model with n classes,
\* also on a Problem that carries the votes of earlier inferences, the votes sum to
\* n * (n - 1) / 2 and every class has between 0 and n - 1 of them.
C13_VotesSumToPairs ==
    pc = "decision" =>
        LET n == Len(svm.classes)
        IN  /\ Len(problem.vote) = n
            /\ Sum(problem.vote) * 2 = n * (n - 1)
            /\ \A c \in 1 .. n : problem.vote[c] >= 0 /\ problem.vote[c] <= n - 1

\* the second inference of a three-class Problem: the call started from the votes
\* the first inference left
C13_Witness ==
    /\ pc = "decision"
    /\ inferences >= 1
    /\ Len(svm.classes) = 3
    /\ \E c \in 1 .. 3 : problem.vote[c] = 2
    /\ \E c \in 1 .. 3 : problem.vote[c] = 0

\* row k (from 1) of the matrix as created and written
RowOfCells(k) == [a \in 1 .. seen.attributes |-> seen.cells[<<k - 1, a - 1>>]]

\* C12: iterating over a matrix created by with_dimension(vectors, attributes,
\* default) yields the rows 0, 1, ... in this order, each the `attributes` elements
\* of its row, never aborts, returns None only after `vectors` rows and from then on
\* only None; on a matrix never written every element yielded is the default.
C12_IterYieldsEveryRowOnce ==
    /\ pc # "aborted"
    /\ Len(seen.yielded) <= seen.vectors
    /\ \A k \in 1 .. Len(seen.yielded) : seen.yielded[k] = RowOfCells(k)
    /\ seen.nones > 0 => Len(seen.yielded) = seen.vectors
    /\ seen.writes = 0 =>
         \A k \in 1 .. Len(seen.yielded) :
             /\ Len(seen.yielded[k]) = seen.attributes
             /\ \A a \in 1 .. seen.attributes : seen.yielded[k][a] = seen.default

\* a written matrix was iterated to its end and asked again
C12_Witness ==
    /\ pc = "iterating"
    /\ seen.nones = MaxNones
    /\ Len(seen.yielded) = seen.vectors
    /\ seen.vectors >= 2
    /\ seen.attributes >= 1
    /\ \E k \in 2 .. seen.vectors : seen.yielded[k] # seen.yielded[1]

====
